---- MODULE Spec2Model ----
(***************************************************************************)
(* The session coordinator of the shared whiteboard: the socket.io server  *)
(* that owns the per-board element lists and user lists, and the handlers  *)
(* it registers for every connection (join-board, draw-event, clear-board, *)
(* cursor-move, cursor-leave, disconnect).  Node runs the handlers one at  *)
(* a time, so every handler is one atomic action.                          *)
(***************************************************************************)
EXTENDS Integers, Sequences, FiniteSets, TLC

(***************************************************************************)
(* Bounds of the model.                                                    *)
(***************************************************************************)
\* Number of connections (socket ids) the transport hands out.
MaxConns == 2
\* Longest user list a board may reach (join-board is not taken beyond it).
MaxPresence == 2
\* Number of palette entries the random pick may return.
MaxColorPick == 1
\* The most entries a user list gets where only presence is followed: three,
\* so that a removal leaves two entries whose order can be told.
MaxLongPresence == 3
\* The most messages a connection has received and not yet handled.
MaxInbox == 2
MaxLen == 2

(***************************************************************************)
(* Values.                                                                 *)
(***************************************************************************)
SocketIds == 1..MaxConns
BoardIds == {"r1", "r2"}
UserNames == {"ann"}
ElementIds == {"a", "b"}

\* The palette of the join-board handler.
colors ==
  << "#ef4444", "#f97316", "#f59e0b", "#10b981",
     "#3b82f6", "#6366f1", "#8b5cf6", "#d946ef" >>

ColorPicks == 1..MaxColorPick
\* Every value of Math.floor(Math.random() * colors.length), plus one.
PaletteIndexes == DOMAIN colors
\* The pick where the colour plays no part.
FirstColor == {1}

\* A DrawingElement: an id, a type and the fields of that type only.
RectElements == { [id |-> i, type |-> "rect", width |-> 10] : i \in ElementIds }
CircleElements == { [id |-> i, type |-> "circle", radius |-> 5] : i \in ElementIds }
Elements == RectElements \cup CircleElements

\* The JavaScript null sent in place of an element.
NullElement == [isNull |-> TRUE]

\* What a draw-event may carry as its element.
ElementInputs == Elements \cup {NullElement}

\* Pointer positions (x, y) of a cursor-move.
Points == { <<0, 0>>, <<1, 2>> }
\* One cursor position.
OnePoint == { <<1, 2>> }

\* The JavaScript undefined: what a field missing from a payload reads as.
Undefined == "(undefined)"

\* What a payload may carry as its boardId: a board id, or nothing.
BoardIdInputs == BoardIds \cup {Undefined}

\* Elements sent without an id.
NoIdElements == { [type |-> "rect", width |-> 10] }

\* Fillers of the fields an event or an emit does not use.
NoBoard == "(none)"
NoName == "(none)"
NoElement == [none |-> TRUE]
NoData == <<>>

VARIABLES
  sockets,      \* socket id -> "idle" (not yet connected) | "open" | "closed"
  socketRooms,  \* socket id -> the socket.io rooms the socket is in
  boards,       \* the boards object: board id -> list of elements
  users,        \* the users object: board id -> list of user records
  userKeys,     \* the keys of users in insertion order (for..in order)
  sent,         \* the emits of the last handler, in the order it made them
  last,         \* the event the last handler processed
  crashed,      \* a handler threw: the process is gone
  replayed,     \* the last event is the same event as the one before it
  replaced,     \* history: the stored element the last draw-event overwrote
  lastMutate,   \* history: board id -> element key -> last draw-event
                \* element processed since the board's last clear-board
  cleared,      \* history: board id -> a clear-board was processed for it
  listening,    \* socket id -> the client is the App, with its listeners on
  inbox,        \* socket id -> the messages sent to it and not yet handled
  remoteCursors,\* socket id -> the client's remoteCursors map
  elements,     \* socket id -> the client's elements list
  appUsers,     \* socket id -> the client's users list
  delivered     \* history: the last message a client handled, and the client

vars ==
  << sockets, socketRooms, boards, users, userKeys, sent, last, crashed,
     replayed, replaced, lastMutate, cleared, listening, inbox, remoteCursors,
     elements, appUsers, delivered >>

(***************************************************************************)
(* Helpers.                                                                *)
(***************************************************************************)
\* obj[k] = v on a JavaScript object used as a map.
Put(obj, k, v) == [x \in (DOMAIN obj) \cup {k} |-> IF x = k THEN v ELSE obj[x]]

\* The object with no keys.
EmptyObject == [x \in {} |-> <<>>]

\* One emit: the event name, the sockets it is sent to, its argument.
Emit(event, to, data) == [event |-> event, to |-> to, data |-> data]

\* The record of a processed event.
Event(ev, s, boardId, userName, element, x, y) ==
  [ev |-> ev, id |-> s, boardId |-> boardId, userName |-> userName,
   element |-> element, x |-> x, y |-> y]

\* The sockets in socket.io room boardId under the membership rooms.
InRoom(rooms, boardId) == { s \in SocketIds : boardId \in rooms[s] }

\* obj[k] converts the key k to a string: undefined names the property
\* "undefined".
PropertyKey(k) == IF k = Undefined THEN "undefined" ELSE k

\* The keys boards and users may get.
BoardKeys == { PropertyKey(b) : b \in BoardIdInputs }

\* e.id of an element that is not null: undefined when it has no id.
IdOf(e) == IF "id" \in DOMAIN e THEN e.id ELSE Undefined

\* The history key of an element.
KeyOf(element) == IF element = NullElement THEN "null" ELSE IdOf(element)

NoMutates == [b \in BoardKeys |-> EmptyObject]

\* The message a client receives for an emit.
Message(m) == [event |-> m.event, data |-> m.data]

\* The emits out of a handler that go to socket s, in the order made.
MessagesTo(out, s) ==
  LET mine == SelectSeq(out, LAMBDA m : s \in m.to)
  IN [i \in 1..Len(mine) |-> Message(mine[i])]

\* A faulty variant of Enqueue: the new messages overtake the waiting ones.
EnqueueFront(box, out, s) == MessagesTo(out, s) \o box

\* The messages of socket s after a handler made the emits out: each emit
\* is written to the connection when it is made.
Enqueue(box, out, s) == box \o MessagesTo(out, s)

\* The client's list after handleMouseDown or handleMouseMove drew element:
\* a new element is put last, the element being drawn is replaced in place.
LocalDraw(prev, element) ==
  LET hits == { i \in 1..Len(prev) : prev[i].id = element.id }
  IN IF hits = {}
       THEN Append(prev, element)
       ELSE [prev EXCEPT ![CHOOSE i \in hits : \A j \in hits : i <= j] = element]

\* Whether the remote-draw listener's prev.findIndex(e => e.id === element.id)
\* throws: reading .id of null is a TypeError, at the first position the
\* callback reaches with a null on either side.
RemoteDrawThrows(prev, element) ==
  \E i \in 1..Len(prev) :
    /\ prev[i] = NullElement \/ element = NullElement
    /\ \A j \in 1..(i - 1) :
         /\ prev[j] # NullElement
         /\ element # NullElement
         /\ IdOf(prev[j]) # IdOf(element)

\* A faulty variant of RemoteDraw: an element whose id is not in the list is
\* put first.
RemoteDrawPrepend(prev, element) ==
  LET hits == { i \in 1..Len(prev) :
                  /\ prev[i] # NullElement
                  /\ element # NullElement
                  /\ IdOf(prev[i]) = IdOf(element) }
      index == IF hits = {} THEN 0 ELSE CHOOSE i \in hits : \A j \in hits : i <= j
  IN IF index # 0 THEN [prev EXCEPT ![index] = element] ELSE << element >> \o prev

\* The reducer of the remote-draw listener when it does not throw: a copy of
\* the list with the element at the first index of its id, else with the
\* element after the last.
RemoteDraw(prev, element) ==
  LET hits == { i \in 1..Len(prev) :
                  /\ prev[i] # NullElement
                  /\ element # NullElement
                  /\ IdOf(prev[i]) = IdOf(element) }
      index == IF hits = {} THEN 0 ELSE CHOOSE i \in hits : \A j \in hits : i <= j
  IN IF index # 0 THEN [prev EXCEPT ![index] = element] ELSE Append(prev, element)

\* The elements lists after the App that sent the event e applied it to its
\* own list, which it does when it emits: a draw-event's element is drawn, a
\* clear-board empties the list.
LocalElements(e) ==
  [s \in SocketIds |->
     IF listening[s] /\ e.id = s /\ e.ev = "draw-event"
       THEN LocalDraw(elements[s], e.element)
       ELSE IF listening[s] /\ e.id = s /\ e.ev = "clear-board"
         THEN << >>
         ELSE elements[s]]

NoDelivery == [to |-> 0, msg |-> [event |-> "(none)", data |-> NoData]]

\* What a handler's emits do to the clients: a message reaches a client that
\* is connected and listening; a closed connection has no messages.
Transmit ==
  /\ inbox' = [s \in SocketIds |->
                 IF sockets'[s] = "open" /\ listening[s]
                   THEN Enqueue(inbox[s], sent', s)
                   ELSE << >>]
  /\ \A s \in SocketIds : Len(inbox'[s]) <= MaxInbox
  /\ elements' = LocalElements(last')
  /\ UNCHANGED << listening, remoteCursors, appUsers, delivered >>

\* The state with no client-side part.
NoClients ==
  /\ inbox = [s \in SocketIds |-> << >>]
  /\ remoteCursors = [s \in SocketIds |-> EmptyObject]
  /\ elements = [s \in SocketIds |-> << >>]
  /\ appUsers = [s \in SocketIds |-> << >>]
  /\ delivered = NoDelivery

(***************************************************************************)
(* The initial state: startServer has run, nobody has connected.           *)
(***************************************************************************)
Init ==
  /\ sockets = [s \in SocketIds |-> "idle"]
  /\ socketRooms = [s \in SocketIds |-> {}]
  /\ boards = EmptyObject
  /\ users = EmptyObject
  /\ userKeys = <<>>
  /\ sent = <<>>
  /\ last = Event("startServer", 0, NoBoard, NoName, NoElement, 0, 0)
  /\ crashed = FALSE
  /\ replayed = FALSE
  /\ replaced = NoElement
  /\ lastMutate = NoMutates
  /\ cleared = [b \in BoardKeys |-> FALSE]
  /\ listening = [s \in SocketIds |-> FALSE]
  /\ NoClients

\* An uncaught exception in a handler ends the process: every connection
\* drops and the in-memory state is lost.
Crash(e) ==
  /\ crashed' = TRUE
  /\ sockets' = [s \in SocketIds |-> IF sockets[s] = "open" THEN "closed" ELSE sockets[s]]
  /\ socketRooms' = [s \in SocketIds |-> {}]
  /\ boards' = EmptyObject
  /\ users' = EmptyObject
  /\ userKeys' = <<>>
  /\ sent' = <<>>
  /\ last' = [e EXCEPT !.ev = "uncaughtException"]
  /\ replayed' = FALSE
  /\ replaced' = NoElement
  /\ lastMutate' = NoMutates
  /\ cleared' = [b \in BoardKeys |-> FALSE]
  /\ Transmit

\* io.on("connection"): the transport hands out a fresh socket id.
Connection(s) ==
  /\ ~crashed
  /\ sockets[s] = "idle"
  /\ \A t \in 1..(s - 1) : sockets[t] # "idle"
  /\ sockets' = [sockets EXCEPT ![s] = "open"]
  /\ sent' = <<>>
  /\ last' = Event("connection", s, NoBoard, NoName, NoElement, 0, 0)
  /\ replayed' = FALSE
  /\ replaced' = NoElement
  /\ UNCHANGED << socketRooms, boards, users, userKeys, crashed, lastMutate, cleared >>
  /\ Transmit

(***************************************************************************)
(* join-board                                                              *)
(***************************************************************************)
\* A faulty variant of InitState: the snapshot is broadcast to the whole room.
InitStateToRoom(s, boardId) ==
  IF PropertyKey(boardId) \in DOMAIN boards
    THEN << Emit("init-state", InRoom(socketRooms, boardId) \cup {s},
                 boards[PropertyKey(boardId)]) >>
    ELSE << >>

\* The emits of the "send current state to the new user" branch: init-state
\* to the joining socket when the board exists, nothing when it does not.
InitState(s, boardId) ==
  IF PropertyKey(boardId) \in DOMAIN boards
    THEN << Emit("init-state", {s}, boards[PropertyKey(boardId)]) >>
    ELSE << >>

\* A faulty variant of PushUser: the entries already there take the new
\* user's colour.
PushUserRecolor(boardId, user) ==
  LET list == IF PropertyKey(boardId) \in DOMAIN users
                THEN users[PropertyKey(boardId)] ELSE << >>
  IN Append([i \in 1..Len(list) |-> [list[i] EXCEPT !.color = user.color]], user)

\* users[boardId] after the handler's push of the new user.
PushUser(boardId, user) ==
  Append(IF PropertyKey(boardId) \in DOMAIN users
           THEN users[PropertyKey(boardId)] ELSE << >>, user)

\* A faulty variant of UsersUpdateRecipients: socket.to(boardId).
UsersUpdateOthers(s, rooms, boardId) == InRoom(rooms, boardId) \ {s}

\* io.to(boardId) of the join's users-update: every socket of the room,
\* the joining one included.
UsersUpdateRecipients(s, rooms, boardId) == InRoom(rooms, boardId)

\* A faulty variant of JoinEmits: the users-update is emitted before the
\* init-state.
JoinEmitsUpdateFirst(s, rooms, boardId, list) ==
  << Emit("users-update", UsersUpdateRecipients(s, rooms, boardId), list) >>
    \o InitState(s, boardId)

\* The emits of a join-board in the order the handler makes them: the
\* init-state of the if-branch, then the users-update.
JoinEmits(s, rooms, boardId, list) ==
  InitState(s, boardId)
    \o << Emit("users-update", UsersUpdateRecipients(s, rooms, boardId), list) >>

\* A faulty variant of JoinBoard: the board's element list is set to the
\* empty array whether the board has one or not.
JoinBoardResets(s, boardId, userName, pick) ==
  LET rooms1 == [socketRooms EXCEPT ![s] = @ \cup {boardId}]
      user == [id |-> s, name |-> userName, color |-> colors[pick]]
      key == PropertyKey(boardId)
      users1 == Put(users, key, PushUser(boardId, user))
      e == Event("join-board", s, boardId, userName, NoElement, 0, 0)
  IN /\ ~crashed
     /\ sockets[s] = "open"
     /\ socketRooms' = rooms1
     /\ users' = users1
     /\ userKeys' = IF key \in DOMAIN users THEN userKeys ELSE Append(userKeys, key)
     /\ boards' = Put(boards, key, << >>)
     /\ sent' = JoinEmits(s, rooms1, boardId, users1[key])
     /\ last' = e
     /\ replayed' = (e = last)
     /\ replaced' = NoElement
     /\ UNCHANGED << sockets, crashed, lastMutate, cleared >>
     /\ Transmit

JoinBoard(s, boardId, userName, pick) ==
  LET rooms1 == [socketRooms EXCEPT ![s] = @ \cup {boardId}]
      user == [id |-> s, name |-> userName, color |-> colors[pick]]
      key == PropertyKey(boardId)
      users1 == Put(users, key, PushUser(boardId, user))
      e == Event("join-board", s, boardId, userName, NoElement, 0, 0)
  IN /\ ~crashed
     /\ sockets[s] = "open"
     /\ socketRooms' = rooms1
     /\ users' = users1
     /\ userKeys' = IF key \in DOMAIN users THEN userKeys ELSE Append(userKeys, key)
     /\ boards' = IF key \in DOMAIN boards THEN boards ELSE Put(boards, key, << >>)
     /\ sent' = JoinEmits(s, rooms1, boardId, users1[key])
     /\ last' = e
     /\ replayed' = (e = last)
     /\ replaced' = NoElement
     /\ UNCHANGED << sockets, crashed, lastMutate, cleared >>
     /\ Transmit

\* Whether users[boardId] has fewer than max entries.
PresenceBelow(boardId, max) ==
  PropertyKey(boardId) \in DOMAIN users => Len(users[PropertyKey(boardId)]) < max

\* join-board while the board's user list is shorter than MaxPresence.
Join(s, boardId, userName, pick) ==
  PresenceBelow(boardId, MaxPresence) /\ JoinBoard(s, boardId, userName, pick)

\* join-board while the board's user list is shorter than MaxLongPresence.
JoinLong(s, boardId, userName, pick) ==
  PresenceBelow(boardId, MaxLongPresence) /\ JoinBoard(s, boardId, userName, pick)

\* join-board of a socket that has no entry in the board's user list.
JoinFirst(s, boardId, userName, pick) ==
  /\ PropertyKey(boardId) \in DOMAIN users =>
       \A i \in DOMAIN users[PropertyKey(boardId)] : users[PropertyKey(boardId)][i].id # s
  /\ JoinBoard(s, boardId, userName, pick)

(***************************************************************************)
(* draw-event                                                              *)
(***************************************************************************)
\* Whether arr.findIndex(e => e.id === element.id) throws: the callback
\* reads e.id and then element.id at every position up to the first match,
\* and reading .id of null is a TypeError.
FindIndexThrows(arr, element) ==
  \E i \in 1..Len(arr) :
    /\ arr[i] = NullElement \/ element = NullElement
    /\ \A j \in 1..(i - 1) :
         /\ arr[j] # NullElement
         /\ element # NullElement
         /\ IdOf(arr[j]) # IdOf(element)

\* A faulty variant of FindIndex: the callback compares the type, not the id.
FindIndexByType(arr, element) ==
  LET hits == { i \in 1..Len(arr) :
                  /\ arr[i] # NullElement
                  /\ element # NullElement
                  /\ arr[i].type = element.type }
  IN IF hits = {} THEN 0 ELSE CHOOSE i \in hits : \A j \in hits : i <= j

\* arr.findIndex(e => e.id === element.id) when it does not throw, as a
\* position of the sequence: the JavaScript index plus one, 0 for -1.
FindIndex(arr, element) ==
  LET hits == { i \in 1..Len(arr) :
                  /\ arr[i] # NullElement
                  /\ element # NullElement
                  /\ IdOf(arr[i]) = IdOf(element) }
  IN IF hits = {} THEN 0 ELSE CHOOSE i \in hits : \A j \in hits : i <= j

\* A faulty variant of Upsert: the element is pushed whether or not its id is stored.
UpsertAlwaysPush(arr, element) == Append(arr, element)

\* A faulty variant of Upsert: a stored element is removed and the new one pushed.
UpsertMoveToEnd(arr, element) ==
  Append(SelectSeq(arr, LAMBDA e : e = NullElement \/ element = NullElement
                                     \/ IdOf(e) # IdOf(element)),
         element)

\* A faulty variant of Upsert: the new fields are merged into the stored element.
UpsertMerge(arr, element) ==
  LET index == FindIndex(arr, element)
      old == arr[index]
      merged == [f \in (DOMAIN old) \cup (DOMAIN element) |->
                   IF f \in DOMAIN element THEN element[f] ELSE old[f]]
  IN IF index # 0 THEN [arr EXCEPT ![index] = merged] ELSE Append(arr, element)

\* The store after the upsert: replace at the found index, else push.
Upsert(arr, element) ==
  LET index == FindIndex(arr, element)
  IN IF index # 0 THEN [arr EXCEPT ![index] = element] ELSE Append(arr, element)

\* A faulty variant of DrawRecipients: io.to(boardId), the sender included.
DrawRecipientsAll(s, boardId) == InRoom(socketRooms, boardId)

\* socket.to(boardId): the room without the sending socket.
DrawRecipients(s, boardId) == InRoom(socketRooms, boardId) \ {s}

DrawEvent(s, boardId, element) ==
  LET key == PropertyKey(boardId)
      arr == IF key \in DOMAIN boards THEN boards[key] ELSE << >>
      e == Event("draw-event", s, boardId, NoName, element, 0, 0)
  IN /\ ~crashed
     /\ sockets[s] = "open"
     /\ IF FindIndexThrows(arr, element)
          THEN Crash(e)
          ELSE /\ boards' = Put(boards, key, Upsert(arr, element))
               /\ sent' = << Emit("remote-draw", DrawRecipients(s, boardId), element) >>
               /\ last' = e
               /\ replayed' = (e = last)
               /\ replaced' = IF FindIndex(arr, element) # 0
                                THEN arr[FindIndex(arr, element)]
                                ELSE NoElement
               /\ lastMutate' = [lastMutate EXCEPT ![key] = Put(@, KeyOf(element), element)]
               /\ UNCHANGED << sockets, socketRooms, users, userKeys, crashed, cleared >>
               /\ Transmit

(***************************************************************************)
(* clear-board                                                             *)
(***************************************************************************)
\* A faulty variant of ClearRecipients: io.to(boardId) and socket.emit, the
\* room and the sender.
ClearRecipientsAndSender(s, boardId) == InRoom(socketRooms, boardId) \cup {s}

\* A faulty variant of ClearRecipients: io.emit, every connected socket.
ClearRecipientsEveryone(s, boardId) == { t \in SocketIds : sockets[t] = "open" }

\* A faulty variant of ClearRecipients: socket.to(boardId), the sender excluded.
ClearRecipientsOthers(s, boardId) == InRoom(socketRooms, boardId) \ {s}

\* io.to(boardId): every socket of the room.
ClearRecipients(s, boardId) == InRoom(socketRooms, boardId)

\* A faulty variant of ClearBoard: delete boards[boardId].
ClearBoardDeletes(s, boardId) ==
  LET e == Event("clear-board", s, boardId, NoName, NoElement, 0, 0)
  IN /\ ~crashed
     /\ sockets[s] = "open"
     /\ boards' = [b \in (DOMAIN boards) \ {PropertyKey(boardId)} |-> boards[b]]
     /\ sent' = << Emit("board-cleared", ClearRecipients(s, boardId), NoData) >>
     /\ last' = e
     /\ replayed' = (e = last)
     /\ replaced' = NoElement
     /\ lastMutate' = [lastMutate EXCEPT ![PropertyKey(boardId)] = EmptyObject]
     /\ cleared' = [cleared EXCEPT ![PropertyKey(boardId)] = TRUE]
     /\ UNCHANGED << sockets, socketRooms, users, userKeys, crashed >>
     /\ Transmit

\* A faulty variant of ClearBoard: the stored elements are kept.
ClearBoardKeepsStore(s, boardId) ==
  LET e == Event("clear-board", s, boardId, NoName, NoElement, 0, 0)
  IN /\ ~crashed
     /\ sockets[s] = "open"
     /\ boards' = IF PropertyKey(boardId) \in DOMAIN boards
                    THEN boards ELSE Put(boards, PropertyKey(boardId), << >>)
     /\ sent' = << Emit("board-cleared", InRoom(socketRooms, boardId), NoData) >>
     /\ last' = e
     /\ replayed' = (e = last)
     /\ replaced' = NoElement
     /\ lastMutate' = [lastMutate EXCEPT ![PropertyKey(boardId)] = EmptyObject]
     /\ cleared' = [cleared EXCEPT ![PropertyKey(boardId)] = TRUE]
     /\ UNCHANGED << sockets, socketRooms, users, userKeys, crashed >>
     /\ Transmit

ClearBoard(s, boardId) ==
  LET e == Event("clear-board", s, boardId, NoName, NoElement, 0, 0)
  IN /\ ~crashed
     /\ sockets[s] = "open"
     /\ boards' = Put(boards, PropertyKey(boardId), << >>)
     /\ sent' = << Emit("board-cleared", ClearRecipients(s, boardId), NoData) >>
     /\ last' = e
     /\ replayed' = (e = last)
     /\ replaced' = NoElement
     /\ lastMutate' = [lastMutate EXCEPT ![PropertyKey(boardId)] = EmptyObject]
     /\ cleared' = [cleared EXCEPT ![PropertyKey(boardId)] = TRUE]
     /\ UNCHANGED << sockets, socketRooms, users, userKeys, crashed >>
     /\ Transmit

(***************************************************************************)
(* cursor-move, cursor-leave                                               *)
(***************************************************************************)
\* A faulty variant of CursorRecipients: io.to(boardId), the sender included.
CursorRecipientsAll(s, boardId) == InRoom(socketRooms, boardId)

\* socket.to(boardId) of the cursor handlers: the room without the sender.
CursorRecipients(s, boardId) == InRoom(socketRooms, boardId) \ {s}

CursorMove(s, boardId, x, y) ==
  LET e == Event("cursor-move", s, boardId, NoName, NoElement, x, y)
  IN /\ ~crashed
     /\ sockets[s] = "open"
     /\ sent' = << Emit("remote-cursor", CursorRecipients(s, boardId),
                        [userId |-> s, x |-> x, y |-> y]) >>
     /\ last' = e
     /\ replayed' = (e = last)
     /\ replaced' = NoElement
     /\ UNCHANGED << sockets, socketRooms, boards, users, userKeys, crashed,
                     lastMutate, cleared >>
     /\ Transmit

CursorLeave(s, boardId) ==
  LET e == Event("cursor-leave", s, boardId, NoName, NoElement, 0, 0)
  IN /\ ~crashed
     /\ sockets[s] = "open"
     /\ sent' = << Emit("cursor-hide", CursorRecipients(s, boardId), s) >>
     /\ last' = e
     /\ replayed' = (e = last)
     /\ replaced' = NoElement
     /\ UNCHANGED << sockets, socketRooms, boards, users, userKeys, crashed,
                     lastMutate, cleared >>
     /\ Transmit

(***************************************************************************)
(* disconnect                                                              *)
(***************************************************************************)
\* A faulty variant of FindUser: a miss is taken for the last position, as
\* splice(-1, 1) would.
FindUserOrLast(list, s) ==
  LET hits == { i \in 1..Len(list) : list[i].id = s }
  IN IF hits = {} THEN Len(list) ELSE CHOOSE i \in hits : \A j \in hits : i <= j

\* list.findIndex(u => u.id === s), as a position: 0 for -1.
FindUser(list, s) ==
  LET hits == { i \in 1..Len(list) : list[i].id = s }
  IN IF hits = {} THEN 0 ELSE CHOOSE i \in hits : \A j \in hits : i <= j

\* A faulty variant of Splice: the last entry is moved into the freed position.
SpliceSwapLast(list, index) ==
  [i \in 1..(Len(list) - 1) |-> IF i = index THEN list[Len(list)] ELSE list[i]]

\* list.splice(index, 1).
Splice(list, index) ==
  [i \in 1..(Len(list) - 1) |-> IF i < index THEN list[i] ELSE list[i + 1]]

\* The body of the for..in loop for one board: the user list after it.
RemoveUser(list, s) ==
  IF FindUser(list, s) # 0 THEN Splice(list, FindUser(list, s)) ELSE list

\* A faulty variant of DisconnectRecipients: socket.emit, the closed socket only.
DisconnectRecipientsSelf(s, rooms, boardId) == {s}

\* io.to(boardId) inside the disconnect handler: every socket still in the room.
DisconnectRecipients(s, rooms, boardId) == InRoom(rooms, boardId)

\* The for..in loop over the keys of users, with the membership rooms the
\* broadcasts go by: the user lists and the emits it leaves.
RECURSIVE DisconnectLoop(_, _, _, _, _)
DisconnectLoop(keys, us, out, rooms, s) ==
  IF keys = << >>
    THEN [users |-> us, sent |-> out]
    ELSE LET boardId == Head(keys)
             list == RemoveUser(us[boardId], s)
         IN IF FindUser(us[boardId], s) # 0
              THEN DisconnectLoop(Tail(keys), [us EXCEPT ![boardId] = list],
                     Append(out, Emit("users-update",
                                       DisconnectRecipients(s, rooms, boardId), list)),
                     rooms, s)
              ELSE DisconnectLoop(Tail(keys), us, out, rooms, s)

\* A faulty variant of Disconnect: a board nobody is left on loses its elements.
DisconnectDropsBoards(s) ==
  LET rooms1 == [socketRooms EXCEPT ![s] = {}]
      done == DisconnectLoop(userKeys, users, << >>, rooms1, s)
      e == Event("disconnect", s, NoBoard, NoName, NoElement, 0, 0)
  IN /\ ~crashed
     /\ sockets[s] = "open"
     /\ sockets' = [sockets EXCEPT ![s] = "closed"]
     /\ socketRooms' = rooms1
     /\ users' = done.users
     /\ boards' = [b \in DOMAIN boards |->
                     IF b \in DOMAIN done.users /\ done.users[b] = << >>
                       THEN << >> ELSE boards[b]]
     /\ sent' = done.sent
     /\ last' = e
     /\ replayed' = FALSE
     /\ replaced' = NoElement
     /\ UNCHANGED << userKeys, crashed, lastMutate, cleared >>
     /\ Transmit

\* The transport closes the socket, which leaves all its rooms, and then
\* runs the disconnect handler.
Disconnect(s) ==
  LET rooms1 == [socketRooms EXCEPT ![s] = {}]
      done == DisconnectLoop(userKeys, users, << >>, rooms1, s)
      e == Event("disconnect", s, NoBoard, NoName, NoElement, 0, 0)
  IN /\ ~crashed
     /\ sockets[s] = "open"
     /\ sockets' = [sockets EXCEPT ![s] = "closed"]
     /\ socketRooms' = rooms1
     /\ users' = done.users
     /\ sent' = done.sent
     /\ last' = e
     /\ replayed' = FALSE
     /\ replaced' = NoElement
     /\ UNCHANGED << boards, userKeys, crashed, lastMutate, cleared >>
     /\ Transmit

(***************************************************************************)
(* An event without a payload                                              *)
(***************************************************************************)
\* The handlers that destructure their payload in the parameter list.
Destructuring == {"join-board", "draw-event", "cursor-move"}

\* The event ev arrives with no payload: destructuring undefined throws a
\* TypeError before the handler's first statement.
MissingPayload(s, ev) ==
  /\ ~crashed
  /\ sockets[s] = "open"
  /\ Crash(Event(ev, s, Undefined, NoName, NoElement, 0, 0))

(***************************************************************************)
(* The client: the listeners of the App                                    *)
(***************************************************************************)
\* A faulty variant of HandleCursor: a remote-cursor for a user that has an
\* entry leaves the entry as it is.
HandleCursorKeepFirst(cursors, m) ==
  IF m.event = "remote-cursor"
    THEN IF m.data.userId \in DOMAIN cursors
           THEN cursors
           ELSE Put(cursors, m.data.userId, m.data)
    ELSE IF m.event = "cursor-hide"
      THEN [u \in (DOMAIN cursors) \ {m.data} |-> cursors[u]]
      ELSE cursors

\* The remoteCursors map after the listeners ran on message m: remote-cursor
\* sets the sender's entry, cursor-hide deletes it, the other listeners leave
\* the map alone.
HandleCursor(cursors, m) ==
  IF m.event = "remote-cursor"
    THEN Put(cursors, m.data.userId, m.data)
    ELSE IF m.event = "cursor-hide"
      THEN [u \in (DOMAIN cursors) \ {m.data} |-> cursors[u]]
      ELSE cursors

\* The elements list after the listeners ran on message m: init-state
\* replaces it, remote-draw replaces the element of that id or puts the
\* element last, board-cleared empties it.
HandleElements(prev, m) ==
  IF m.event = "init-state"
    THEN m.data
    ELSE IF m.event = "remote-draw"
      THEN RemoteDraw(prev, m.data)
      ELSE IF m.event = "board-cleared" THEN << >> ELSE prev

\* A faulty variant of HandleUsers: the list received is put after the
\* list the client has.
HandleUsersAppend(prev, m) == IF m.event = "users-update" THEN prev \o m.data ELSE prev

\* The users list after the listeners ran on message m: users-update
\* replaces it.
HandleUsers(prev, m) == IF m.event = "users-update" THEN m.data ELSE prev

\* The client of socket s handles the oldest message waiting for it.
Deliver(s) ==
  /\ sockets[s] = "open"
  /\ inbox[s] # << >>
  /\ inbox' = [inbox EXCEPT ![s] = Tail(@)]
  /\ remoteCursors' = [remoteCursors EXCEPT ![s] = HandleCursor(@, Head(inbox[s]))]
  /\ elements' = [elements EXCEPT ![s] = HandleElements(@, Head(inbox[s]))]
  /\ appUsers' = [appUsers EXCEPT ![s] = HandleUsers(@, Head(inbox[s]))]
  /\ delivered' = [to |-> s, msg |-> Head(inbox[s])]
  /\ UNCHANGED << sockets, socketRooms, boards, users, userKeys, sent, last, crashed,
                  replayed, replaced, lastMutate, cleared, listening >>

\* The events of one board, with every element input.
OneBoard == {"r1"}

Next ==
  \/ \E s \in SocketIds : Connection(s)
  \/ \E s \in SocketIds, boardId \in OneBoard, userName \in UserNames, pick \in FirstColor :
       Join(s, boardId, userName, pick)
  \/ \E s \in SocketIds, boardId \in OneBoard, element \in ElementInputs :
       DrawEvent(s, boardId, element)
  \/ \E s \in SocketIds, boardId \in OneBoard : ClearBoard(s, boardId)
  \/ \E s \in SocketIds, boardId \in OneBoard, p \in Points :
       CursorMove(s, boardId, p[1], p[2])
  \/ \E s \in SocketIds, boardId \in OneBoard : CursorLeave(s, boardId)
  \/ \E s \in SocketIds : Disconnect(s)

Spec == Init /\ [][Next]_vars

\* The events of two boards, with one element.
FewElements == { e \in RectElements : e.id = "a" }

NextTwoBoards ==
  \/ \E s \in SocketIds : Connection(s)
  \/ \E s \in SocketIds, boardId \in BoardIds, userName \in UserNames, pick \in FirstColor :
       Join(s, boardId, userName, pick)
  \/ \E s \in SocketIds, boardId \in BoardIds, element \in FewElements :
       DrawEvent(s, boardId, element)
  \/ \E s \in SocketIds, boardId \in BoardIds : ClearBoard(s, boardId)
  \/ \E s \in SocketIds, boardId \in BoardIds, p \in Points :
       CursorMove(s, boardId, p[1], p[2])
  \/ \E s \in SocketIds, boardId \in BoardIds : CursorLeave(s, boardId)
  \/ \E s \in SocketIds : Disconnect(s)

SpecTwoBoards == Init /\ [][NextTwoBoards]_vars

\* The events that name a board, on two boards: no socket closes and each
\* socket joins a board once.
NextRooms ==
  \/ \E s \in SocketIds : Connection(s)
  \/ \E s \in SocketIds, boardId \in BoardIds, userName \in UserNames, pick \in FirstColor :
       JoinFirst(s, boardId, userName, pick)
  \/ \E s \in SocketIds, boardId \in BoardIds, element \in FewElements :
       DrawEvent(s, boardId, element)
  \/ \E s \in SocketIds, boardId \in BoardIds : ClearBoard(s, boardId)
  \/ \E s \in SocketIds, boardId \in BoardIds, p \in OnePoint :
       CursorMove(s, boardId, p[1], p[2])
  \/ \E s \in SocketIds, boardId \in BoardIds : CursorLeave(s, boardId)

SpecRooms == Init /\ [][NextRooms]_vars

\* Presence only: connections, joins and disconnects on two boards.  The
\* other handlers read and write neither users nor the room membership.
NextPresence ==
  \/ \E s \in SocketIds : Connection(s)
  \/ \E s \in SocketIds, boardId \in BoardIds, userName \in UserNames, pick \in FirstColor :
       Join(s, boardId, userName, pick)
  \/ \E s \in SocketIds : Disconnect(s)

SpecPresence == Init /\ [][NextPresence]_vars

\* Presence on one board, with longer user lists, two names and the picks.
PresenceNames == {"ann", "bob"}

NextPresenceLong ==
  \/ \E s \in SocketIds : Connection(s)
  \/ \E s \in SocketIds, boardId \in OneBoard, userName \in PresenceNames, pick \in ColorPicks :
       JoinLong(s, boardId, userName, pick)
  \/ \E s \in SocketIds : Disconnect(s)

SpecPresenceLong == Init /\ [][NextPresenceLong]_vars

\* Presence on one board with every pick of the palette.
NextColors ==
  \/ \E s \in SocketIds : Connection(s)
  \/ \E s \in SocketIds, boardId \in OneBoard, userName \in UserNames, pick \in PaletteIndexes :
       Join(s, boardId, userName, pick)
  \/ \E s \in SocketIds : Disconnect(s)

SpecColors == Init /\ [][NextColors]_vars

\* The client of the first connection is the App: the presence and cursor
\* handlers of the server on one board, and that client handling what it is
\* sent.  The other connections send events and are not followed.
InitClients ==
  /\ sockets = [s \in SocketIds |-> "idle"]
  /\ socketRooms = [s \in SocketIds |-> {}]
  /\ boards = EmptyObject
  /\ users = EmptyObject
  /\ userKeys = <<>>
  /\ sent = <<>>
  /\ last = Event("startServer", 0, NoBoard, NoName, NoElement, 0, 0)
  /\ crashed = FALSE
  /\ replayed = FALSE
  /\ replaced = NoElement
  /\ lastMutate = NoMutates
  /\ cleared = [b \in BoardKeys |-> FALSE]
  /\ listening = [s \in SocketIds |-> s = 1]
  /\ NoClients

NextClients ==
  \/ \E s \in SocketIds : Connection(s)
  \/ \E s \in SocketIds, boardId \in OneBoard, userName \in UserNames, pick \in FirstColor :
       Join(s, boardId, userName, pick)
  \/ \E s \in SocketIds, boardId \in OneBoard, p \in OnePoint :
       CursorMove(s, boardId, p[1], p[2])
  \/ \E s \in SocketIds, boardId \in OneBoard : CursorLeave(s, boardId)
  \/ \E s \in SocketIds : Disconnect(s)
  \/ \E s \in SocketIds : Deliver(s)

SpecClients == InitClients /\ [][NextClients]_vars

\* The elements the App of socket s draws: their ids are its own (nanoid),
\* no other App draws an element of the same id.
OwnElements(s) == { e \in Elements : e.id = (IF s = 1 THEN "a" ELSE "b") }

\* handleMouseDown / handleMouseMove of the App of socket s, which has joined
\* the board: the element is drawn on the App's own list and sent as a
\* draw-event, which the server handles.
HandleMouseMove(s, boardId, element) ==
  /\ listening[s]
  /\ boardId \in socketRooms[s]
  /\ DrawEvent(s, boardId, element)

\* clearBoard of the App of socket s, which has joined the board: the
\* clear-board is sent, which the server handles, and the App's own list is
\* emptied.
HandleClearBoard(s, boardId) ==
  /\ listening[s]
  /\ boardId \in socketRooms[s]
  /\ ClearBoard(s, boardId)

\* Every connection is an App.
InitApps ==
  /\ sockets = [s \in SocketIds |-> "idle"]
  /\ socketRooms = [s \in SocketIds |-> {}]
  /\ boards = EmptyObject
  /\ users = EmptyObject
  /\ userKeys = <<>>
  /\ sent = <<>>
  /\ last = Event("startServer", 0, NoBoard, NoName, NoElement, 0, 0)
  /\ crashed = FALSE
  /\ replayed = FALSE
  /\ replaced = NoElement
  /\ lastMutate = NoMutates
  /\ cleared = [b \in BoardKeys |-> FALSE]
  /\ listening = [s \in SocketIds |-> TRUE]
  /\ NoClients

\* Apps that join one board once, draw their own elements and clear the
\* board, and handle the messages they receive; no connection closes.
NextApps ==
  \/ \E s \in SocketIds : Connection(s)
  \/ \E s \in SocketIds, boardId \in OneBoard, userName \in UserNames, pick \in FirstColor :
       JoinFirst(s, boardId, userName, pick)
  \/ \E s \in SocketIds, boardId \in OneBoard :
       \E element \in OwnElements(s) : HandleMouseMove(s, boardId, element)
  \/ \E s \in SocketIds, boardId \in OneBoard : HandleClearBoard(s, boardId)
  \/ \E s \in SocketIds : Deliver(s)

SpecApps == InitApps /\ [][NextApps]_vars

\* Cursors only: Apps that join one board once, move the pointer over two
\* positions and leave the canvas, and handle the messages they receive; no
\* connection closes.
NextCursors ==
  \/ \E s \in SocketIds : Connection(s)
  \/ \E s \in SocketIds, boardId \in OneBoard, userName \in UserNames, pick \in FirstColor :
       JoinFirst(s, boardId, userName, pick)
  \/ \E s \in SocketIds, boardId \in OneBoard, p \in Points :
       CursorMove(s, boardId, p[1], p[2])
  \/ \E s \in SocketIds, boardId \in OneBoard : CursorLeave(s, boardId)
  \/ \E s \in SocketIds : Deliver(s)

SpecCursors == InitClients /\ [][NextCursors]_vars

\* What the two upserts are fed: elements, an element without an id, null.
UpsertInputs == Elements \cup NoIdElements \cup {NullElement}

\* The element lists a board can hold, up to MaxLen elements: no two elements
\* of one id and no null, or a null alone.
StartLists ==
  { l \in UNION { [1..n -> UpsertInputs \ {NullElement}] : n \in 0..MaxLen } :
      \A i, j \in DOMAIN l : i # j => IdOf(l[i]) # IdOf(l[j]) }
    \cup { << NullElement >> }

\* The server's board and a client's list hold the same elements.
InitUpsert ==
  /\ sockets = [s \in SocketIds |-> "idle"]
  /\ socketRooms = [s \in SocketIds |-> {}]
  /\ \E l \in StartLists :
       /\ boards = Put(EmptyObject, "r1", l)
       /\ elements = [s \in SocketIds |-> IF s = 1 THEN l ELSE << >>]
  /\ users = EmptyObject
  /\ userKeys = <<>>
  /\ sent = <<>>
  /\ last = Event("startServer", 0, NoBoard, NoName, NoElement, 0, 0)
  /\ crashed = FALSE
  /\ replayed = FALSE
  /\ replaced = NoElement
  /\ lastMutate = NoMutates
  /\ cleared = [b \in BoardKeys |-> FALSE]
  /\ listening = [s \in SocketIds |-> s = 1]
  /\ inbox = [s \in SocketIds |-> << >>]
  /\ remoteCursors = [s \in SocketIds |-> EmptyObject]
  /\ appUsers = [s \in SocketIds |-> << >>]
  /\ delivered = NoDelivery

\* One element goes through the upsert of the draw-event handler and through
\* the reducer of the remote-draw listener, neither of which throws on it.
UpsertBoth(element) ==
  LET arr == boards["r1"]
      prev == elements[1]
      e == Event("draw-event", 0, "r1", NoName, element, 0, 0)
  IN /\ ~FindIndexThrows(arr, element)
     /\ ~RemoteDrawThrows(prev, element)
     /\ boards' = Put(boards, "r1", Upsert(arr, element))
     /\ elements' = [elements EXCEPT ![1] =
                       HandleElements(@, [event |-> "remote-draw", data |-> element])]
     /\ last' = e
     /\ replayed' = (e = last)
     /\ replaced' = IF FindIndex(arr, element) # 0
                      THEN arr[FindIndex(arr, element)]
                      ELSE NoElement
     /\ UNCHANGED << sockets, socketRooms, users, userKeys, sent, crashed, lastMutate,
                     cleared, listening, inbox, remoteCursors, appUsers, delivered >>

NextUpsert == \E element \in UpsertInputs : UpsertBoth(element)

SpecUpsert == InitUpsert /\ [][NextUpsert]_vars

\* Payloads with a field missing: a board id or none, an element with an id,
\* without one or null, and events with no payload at all.  The joins carry
\* a board id.
MalformedBoards == {"r1", Undefined}
MalformedElements == FewElements \cup NoIdElements \cup {NullElement}

NextMalformed ==
  \/ \E s \in SocketIds : Connection(s)
  \/ \E s \in SocketIds, boardId \in OneBoard, userName \in UserNames, pick \in FirstColor :
       Join(s, boardId, userName, pick)
  \/ \E s \in SocketIds, boardId \in MalformedBoards, element \in MalformedElements :
       DrawEvent(s, boardId, element)
  \/ \E s \in SocketIds, boardId \in MalformedBoards : ClearBoard(s, boardId)
  \/ \E s \in SocketIds, boardId \in MalformedBoards, p \in OnePoint :
       CursorMove(s, boardId, p[1], p[2])
  \/ \E s \in SocketIds, boardId \in MalformedBoards : CursorLeave(s, boardId)
  \/ \E s \in SocketIds : Disconnect(s)
  \/ \E s \in SocketIds, ev \in Destructuring : MissingPayload(s, ev)

SpecMalformed == Init /\ [][NextMalformed]_vars

(***************************************************************************)
(* Properties.                                                             *)
(***************************************************************************)
\* The positions of sent that carry the named event.
Sent(event) == { i \in DOMAIN sent : sent[i].event = event }

\* The sockets joined to the board of the last event, the sender apart.
OthersInRoom == InRoom(socketRooms, last.boardId) \ {last.id}

\* The elements of a list, as a set.
Range(list) == { list[i] : i \in DOMAIN list }

\* C1 (join returns current state): a join-board processed for a board that
\* already has an element list sends exactly one init-state, to the joining
\* socket alone, and it carries the board's element list as it is.
JoinReturnsCurrentState ==
  [][ (last'.ev = "join-board" /\ last'.boardId \in DOMAIN boards)
        => /\ Cardinality({ i \in DOMAIN sent' : sent'[i].event = "init-state" }) = 1
           /\ \A i \in DOMAIN sent' :
                sent'[i].event = "init-state"
                  => /\ sent'[i].to = {last'.id}
                     /\ sent'[i].data = boards[last'.boardId]
                     /\ sent'[i].data = boards'[last'.boardId] ]_vars

\* A join by one socket, while another is in the room, answered with a
\* snapshot of two elements.
JoinReturnsCurrentStateWitness ==
  /\ last.ev = "join-board"
  /\ OthersInRoom # {}
  /\ \E i \in Sent("init-state") : Len(sent[i].data) = 2

\* C2 (every join is answered with the snapshot): every processed
\* join-board, the first one of a board included, sends the joining socket
\* an init-state carrying the board's element list.
EveryJoinAnswered ==
  last.ev = "join-board"
    => \E i \in Sent("init-state") :
         /\ sent[i].to = {last.id}
         /\ sent[i].data = boards[last.boardId]

\* C3 (sender exclusion on mutate): a processed draw-event sends remote-draw
\* with exactly its element to every other socket of the room, and nothing
\* to the sender.
SenderExclusionOnMutate ==
  last.ev = "draw-event"
    => /\ \A t \in OthersInRoom :
            \E i \in Sent("remote-draw") :
              t \in sent[i].to /\ sent[i].data = last.element
       /\ \A i \in DOMAIN sent : last.id \notin sent[i].to

\* A draw-event of a socket of the room, with another socket in the room.
SenderExclusionOnMutateWitness ==
  /\ last.ev = "draw-event"
  /\ last.id \in InRoom(socketRooms, last.boardId)
  /\ OthersInRoom # {}

\* C4 (replacement preserves order): a draw-event whose element id is stored
\* replaces the element at its position and leaves the length and the other
\* positions as they were; one whose id is not stored appends the element
\* and leaves the earlier positions as they were.
ReplacementPreservesOrder ==
  [][ (last'.ev = "draw-event" /\ last'.element # NullElement)
        => LET r == last'.boardId
               e == last'.element
               old == IF r \in DOMAIN boards THEN boards[r] ELSE << >>
               new == boards'[r]
               hits == { i \in DOMAIN old : old[i] # NullElement /\ old[i].id = e.id }
           IN IF hits # {}
                THEN /\ Len(new) = Len(old)
                     /\ \E i \in hits :
                          /\ new[i] = e
                          /\ \A j \in DOMAIN old : j # i => new[j] = old[j]
                ELSE /\ Len(new) = Len(old) + 1
                     /\ new[Len(new)] = e
                     /\ \A j \in DOMAIN old : new[j] = old[j] ]_vars

\* A draw-event that overwrote the first of two stored elements.
ReplacementPreservesOrderWitness ==
  /\ last.ev = "draw-event"
  /\ replaced # NoElement
  /\ Len(boards[last.boardId]) = 2
  /\ boards[last.boardId][1] = last.element

\* C5 (element id uniqueness): no element list holds two elements with the
\* same id.
ElementIdUnique ==
  \A r \in DOMAIN boards :
    \A i, j \in DOMAIN boards[r] :
      (i # j /\ boards[r][i] # NullElement /\ boards[r][j] # NullElement)
        => boards[r][i].id # boards[r][j].id

\* A list of two elements after a draw-event for an id that was stored.
ElementIdUniqueWitness ==
  /\ last.ev = "draw-event"
  /\ replaced # NoElement
  /\ replaced.id = last.element.id
  /\ Len(boards[last.boardId]) = Cardinality(ElementIds)

\* C6 (upsert idempotence): a draw-event with the board and the element of
\* the draw-event processed just before it leaves the element lists as they
\* were.
UpsertIdempotent ==
  [][ ( /\ last.ev = "draw-event"
        /\ last'.ev = "draw-event"
        /\ last'.boardId = last.boardId
        /\ last'.element = last.element )
        => boards' = boards ]_vars

\* The same draw-event processed twice in a row.
UpsertIdempotentWitness ==
  /\ last.ev = "draw-event"
  /\ replayed
  /\ replaced = last.element
  /\ last.element \in Elements

\* C7 (last write wins): every stored element is, in full, the element of
\* the last draw-event processed for its board and id since the board's last
\* clear-board.
LastWriteWins ==
  \A r \in DOMAIN boards :
    \A i \in DOMAIN boards[r] :
      LET k == KeyOf(boards[r][i])
      IN /\ k \in DOMAIN lastMutate[r]
         /\ boards[r][i] = lastMutate[r][k]

\* A draw-event that overwrote a stored element of another payload.
LastWriteWinsWitness ==
  /\ last.ev = "draw-event"
  /\ replaced # NoElement
  /\ replaced # last.element
  /\ last.element \in Range(boards[last.boardId])

\* C8 (clear broadcasts to all including sender): a processed clear-board
\* sends board-cleared to every socket of the room, the sender included.
ClearBroadcastsToAll ==
  last.ev = "clear-board"
    => \A t \in InRoom(socketRooms, last.boardId) :
         \E i \in Sent("board-cleared") : t \in sent[i].to

\* A clear-board of a socket of the room, with another socket in the room.
ClearBroadcastsToAllWitness ==
  /\ last.ev = "clear-board"
  /\ last.id \in InRoom(socketRooms, last.boardId)
  /\ OthersInRoom # {}

\* C9 (clear empties the store): right after a clear-board the board's
\* element list is empty; from then on the list holds exactly the elements
\* of the draw-events processed since, one per id; and a join-board processed
\* before any such draw-event is answered with an empty snapshot.
ClearEmptiesStore ==
  /\ last.ev = "clear-board" => boards[last.boardId] = << >>
  /\ \A r \in BoardIds :
       cleared[r]
         => /\ r \in DOMAIN boards
            /\ Range(boards[r]) = Range(lastMutate[r])
            /\ Len(boards[r]) = Cardinality(DOMAIN lastMutate[r])
  /\ ( /\ last.ev = "join-board"
       /\ cleared[last.boardId]
       /\ DOMAIN lastMutate[last.boardId] = {} )
       => \E i \in Sent("init-state") :
            sent[i].to = {last.id} /\ sent[i].data = << >>

\* A join-board answered with the empty snapshot of a cleared board.
ClearEmptiesStoreWitness ==
  /\ last.ev = "join-board"
  /\ cleared[last.boardId]
  /\ DOMAIN lastMutate[last.boardId] = {}
  /\ \E i \in Sent("init-state") : sent[i].data = << >>

\* C10 (disconnect cleanup is total): every entry of every user list belongs
\* to a socket that is still connected.
DisconnectCleanupTotal ==
  \A r \in DOMAIN users :
    \A i \in DOMAIN users[r] : sockets[users[r][i].id] = "open"
\* A step that processes the disconnect of socket s.
DisconnectStep(s) == ~crashed /\ ~crashed' /\ sockets[s] = "open" /\ sockets'[s] = "closed"

\* The boards whose user list holds an entry of socket s.
BoardsWithEntry(s) == { b \in DOMAIN users : \E i \in DOMAIN users[b] : users[b][i].id = s }

\* C12: when a disconnect is processed, for each board where the socket had
\* a user entry, the sockets that remain joined to the board are sent a
\* users-update carrying the board's user list after the removal; boards
\* without an entry get no broadcast and the closed socket is sent nothing.
DisconnectNotifiesRemaining ==
  [][ \A s \in SocketIds : DisconnectStep(s) =>
        /\ \A b \in BoardsWithEntry(s) :
             \E i \in DOMAIN sent' :
               /\ sent'[i].event = "users-update"
               /\ sent'[i].to = { t \in SocketIds \ {s} : b \in socketRooms[t] }
               /\ sent'[i].data = users'[b]
        /\ Len(sent') = Cardinality(BoardsWithEntry(s))
        /\ \A i \in DOMAIN sent' : s \notin sent'[i].to ]_vars

\* A disconnect has been processed with two boards known: one broadcast
\* went out, to a socket that stayed, and the other board got none.
DisconnectNotifiesRemainingWitness ==
  /\ last.ev = "disconnect"
  /\ Cardinality(DOMAIN users) = 2
  /\ Len(sent) = 1
  /\ sent[1].to # {}
  /\ sent[1].data # << >>

\* C13: when a join-board has been processed, one users-update went to every
\* socket of the board's room, the joining socket included, carrying the
\* board's user list, whose last entry has the joining socket's id and the
\* name it supplied.
JoinAnnouncesPresence ==
  (~crashed /\ last.ev = "join-board") =>
    /\ Cardinality(Sent("users-update")) = 1
    /\ \A i \in Sent("users-update") :
         /\ sent[i].to = { t \in SocketIds : last.boardId \in socketRooms[t] }
         /\ last.id \in sent[i].to
         /\ sent[i].data = users[PropertyKey(last.boardId)]
         /\ sent[i].data # << >>
         /\ sent[i].data[Len(sent[i].data)].id = last.id
         /\ sent[i].data[Len(sent[i].data)].name = last.userName

\* A second socket has joined a board under another name than the first:
\* the update went to both.
JoinAnnouncesPresenceWitness ==
  /\ last.ev = "join-board"
  /\ \E i \in Sent("users-update") :
       /\ Cardinality(sent[i].to) = 2
       /\ Len(sent[i].data) = 2
       /\ sent[i].data[1].name # sent[i].data[2].name
       /\ sent[i].data[1].id # sent[i].data[2].id

\* The list without its position k.
Without(list, k) == [i \in 1..(Len(list) - 1) |-> IF i < k THEN list[i] ELSE list[i + 1]]

\* C14: a board's user list is in the order the joins were processed: a step
\* leaves it as it is, or a join-board puts the joining socket's entry after
\* all others, or a disconnect takes one entry of the closed socket out and
\* keeps the others in their order, with no gap.
PresenceOrderIsJoinOrder ==
  [][ ~crashed' =>
        \A b \in DOMAIN users' :
          LET old == IF b \in DOMAIN users THEN users[b] ELSE << >>
              new == users'[b]
          IN \/ new = old
             \/ /\ last'.ev = "join-board"
                /\ Len(new) = Len(old) + 1
                /\ SubSeq(new, 1, Len(old)) = old
                /\ new[Len(new)].id = last'.id
             \/ /\ last'.ev = "disconnect"
                /\ \E k \in DOMAIN old : old[k].id = last'.id /\ new = Without(old, k) ]_vars

\* A disconnect took an entry out of a list of three, from before another
\* entry: the two that remain are an other socket's entry and, after it, a
\* second entry of the closed socket.
PresenceOrderIsJoinOrderWitness ==
  /\ last.ev = "disconnect"
  /\ \E b \in DOMAIN users :
       /\ Len(users[b]) = 2
       /\ users[b][1].id # last.id
       /\ users[b][2].id = last.id

\* C19: processing a disconnect leaves every board's stored elements as they
\* were, and a join-board processed right after it is sent all of them.
DisconnectKeepsElements ==
  [][ /\ \A s \in SocketIds : DisconnectStep(s) => boards' = boards
      /\ (last.ev = "disconnect" /\ last'.ev = "join-board"
            /\ PropertyKey(last'.boardId) \in DOMAIN boards) =>
           \E i \in DOMAIN sent' :
             /\ sent'[i].event = "init-state"
             /\ sent'[i].to = {last'.id}
             /\ sent'[i].data = boards[PropertyKey(last'.boardId)] ]_vars

\* The last socket of a board has disconnected, then another socket joined
\* the board, which holds elements, and was sent them.
DisconnectKeepsElementsWitness ==
  /\ last.ev = "join-board"
  /\ sockets[1] = "closed"
  /\ last.id = 2
  /\ Len(users[PropertyKey(last.boardId)]) = 1
  /\ \E i \in Sent("init-state") : Len(sent[i].data) = 2

\* C20: when the join-board of a socket for a board and a name is processed
\* a second time, the user lists and the stored elements are left as the
\* first processing left them.
JoinReplayIdempotent ==
  [][ (~crashed' /\ replayed' /\ last'.ev = "join-board") =>
        (users' = users /\ boards' = boards) ]_vars

\* Whether the processed event e lacks its board id or, for a draw-event,
\* the id of its element.
Malformed(e) ==
  /\ e.ev \in {"join-board", "draw-event", "clear-board", "cursor-move", "cursor-leave"}
  /\ \/ e.boardId = Undefined
     \/ /\ e.ev = "draw-event"
        /\ e.element # NullElement
        /\ "id" \notin DOMAIN e.element

\* C16: an event without a board id, and a draw-event whose element has no
\* id, is dropped: processing it changes no stored elements and no user
\* list, sends no message to any socket, and leaves every socket as it was.
MalformedEventsDropped ==
  [][ Malformed(last') =>
        /\ boards' = boards
        /\ users' = users
        /\ \A i \in DOMAIN sent' : sent'[i].to = {}
        /\ sockets' = sockets ]_vars

\* C17: after a draw-event, cursor-move or cursor-leave has been processed
\* the board it names has stored elements (possibly none), and a join-board
\* for that board processed next is sent init-state.
UnknownRoomCreated ==
  [][ /\ (~crashed' /\ last'.ev \in {"draw-event", "cursor-move", "cursor-leave"}) =>
           PropertyKey(last'.boardId) \in DOMAIN boards'
      /\ (~crashed /\ last.ev \in {"draw-event", "cursor-move", "cursor-leave"}
            /\ ~crashed' /\ last'.ev = "join-board" /\ last'.boardId = last.boardId) =>
           \E i \in DOMAIN sent' : sent'[i].event = "init-state" /\ last'.id \in sent'[i].to ]_vars

\* C18: no event is fatal: the server process never ends with an uncaught
\* exception.
NoEventIsFatal == ~crashed

\* C11: when a socket that sent cursor-move has disconnected, no socket that
\* is still connected holds a cursor entry for it once it has handled every
\* message sent to it.
DisconnectRemovesCursor ==
  \A s, u \in SocketIds :
    (~crashed /\ listening[s] /\ sockets[s] = "open" /\ sockets[u] = "closed"
       /\ inbox[s] = << >>) =>
      u \notin DOMAIN remoteCursors[s]

\* A step in which a client handles a message: the server stands still and
\* a list of waiting messages gets shorter.
DeliveryStep ==
  /\ sent' = sent
  /\ last' = last
  /\ sockets' = sockets
  /\ \E s \in SocketIds : Len(inbox'[s]) < Len(inbox[s])

CursorEventsExcludeSender ==
  /\ (~crashed /\ last.ev = "cursor-move") =>
       /\ Len(sent) = 1
       /\ sent[1].event = "remote-cursor"
       /\ sent[1].to = { t \in SocketIds : last.boardId \in socketRooms[t] /\ t # last.id }
       /\ sent[1].data = [userId |-> last.id, x |-> last.x, y |-> last.y]
  /\ (~crashed /\ last.ev = "cursor-leave") =>
       /\ Len(sent) = 1
       /\ sent[1].event = "cursor-hide"
       /\ sent[1].to = { t \in SocketIds : last.boardId \in socketRooms[t] /\ t # last.id }
       /\ sent[1].data = last.id

\* A socket that is in the room with another one has sent a cursor-move
\* whose x and y differ.
CursorEventsExcludeSenderWitness ==
  /\ last.ev = "cursor-move"
  /\ last.x # last.y
  /\ last.boardId \in socketRooms[last.id]
  /\ sent[1].to # {}

\* The value stored under key b of the object obj, or "absent".
At(obj, b) == IF b \in DOMAIN obj THEN obj[b] ELSE "absent"

\* C22: an event that names a board leaves the stored elements and the user
\* list of every other board as they were, and every message it causes goes
\* to sockets that are in the named board's room only.
RoomIsolation ==
  [][ (~crashed' /\ last'.ev \in {"join-board", "draw-event", "clear-board",
                                    "cursor-move", "cursor-leave"}
        /\ ~DeliveryStep) =>
        /\ \A b \in BoardKeys \ {PropertyKey(last'.boardId)} :
             /\ At(boards', b) = At(boards, b)
             /\ At(users', b) = At(users, b)
        /\ \A i \in DOMAIN sent' :
             sent'[i].to \subseteq { t \in SocketIds : last'.boardId \in socketRooms'[t] } ]_vars

\* A clear-board of one board reached a socket of its room while the other
\* board holds an element and has a socket of its own.
RoomIsolationWitness ==
  /\ last.ev = "clear-board"
  /\ sent[1].to # {}
  /\ \E b \in DOMAIN boards :
       /\ b # last.boardId
       /\ boards[b] # << >>
       /\ \E t \in SocketIds : b \in socketRooms[t] /\ last.boardId \notin socketRooms[t]

\* C23: processing the disconnect of a socket that has no entry in any user
\* list changes no user list and no stored elements and emits nothing.
LeaveIdempotent ==
  [][ \A s \in SocketIds :
        (DisconnectStep(s) /\ BoardsWithEntry(s) = {}) =>
          /\ users' = users
          /\ boards' = boards
          /\ sent' = << >> ]_vars

\* A socket that never joined has disconnected while another socket has an
\* entry in a user list.
LeaveIdempotentWitness ==
  /\ last.ev = "disconnect"
  /\ sent = << >>
  /\ \E b \in DOMAIN users : \E i \in DOMAIN users[b] :
       users[b][i].id # last.id /\ sockets[users[b][i].id] = "open"
  /\ \A b \in DOMAIN users : \A i \in DOMAIN users[b] : users[b][i].id # last.id

\* C24: while the process lives, a board that has stored elements or a user
\* list keeps having one: no step takes a key out of boards or out of users.
RoomsAreImmortal ==
  [][ ~crashed' =>
        /\ (DOMAIN boards) \subseteq (DOMAIN boards')
        /\ (DOMAIN users) \subseteq (DOMAIN users') ]_vars

\* The last socket of a board has disconnected after the board was cleared:
\* the board still has its (empty) stored elements and its (empty) user list.
RoomsAreImmortalWitness ==
  /\ last.ev = "disconnect"
  /\ \E b \in DOMAIN users :
       /\ users[b] = << >>
       /\ cleared[b]
       /\ b \in DOMAIN boards
       /\ \A t \in SocketIds : b \notin socketRooms[t]

\* C25: the colour of every user entry is one of the 8 colours of the
\* palette, and an entry keeps its id, name and colour from the join that
\* pushed it until a disconnect takes it out: a step leaves a user list as it
\* is, or pushes the joining socket's entry under the name it gave, or takes
\* one entry out.
PresenceEntriesFixed ==
  [][ ~crashed' =>
        /\ Cardinality(Range(colors)) = 8
        /\ \A b \in DOMAIN users' :
             LET old == IF b \in DOMAIN users THEN users[b] ELSE << >>
                 new == users'[b]
             IN /\ \A i \in DOMAIN new : new[i].color \in Range(colors)
                /\ \/ new = old
                   \/ /\ last'.ev = "join-board"
                      /\ new = Append(old, new[Len(new)])
                      /\ new[Len(new)].id = last'.id
                      /\ new[Len(new)].name = last'.userName
                   \/ \E k \in DOMAIN old : new = Without(old, k) ]_vars

\* Without regard to the colours in the room: a board has two entries of
\* one colour, the last of the palette, pushed by two sockets.
PresenceEntriesFixedWitness ==
  \E b \in DOMAIN users :
    /\ Len(users[b]) = 2
    /\ users[b][1].color = colors[8]
    /\ users[b][2].color = colors[8]
    /\ users[b][1].id # users[b][2].id

\* C28: a board's user list holds at most one entry per socket id.
PresenceIdsUnique ==
  \A b \in DOMAIN users :
    \A i, j \in DOMAIN users[b] : users[b][i].id = users[b][j].id => i = j

\* C30: when a draw-event, clear-board, cursor-move or cursor-leave of a
\* socket that is not in the board's room has been processed, the board's
\* stored elements are as the event leaves them for a member, its one emit
\* went to every socket of the room, and the sender was sent nothing.
NonMemberEvents ==
  (~crashed /\ last.ev \in {"draw-event", "clear-board", "cursor-move", "cursor-leave"}
    /\ last.boardId \notin socketRooms[last.id]) =>
    /\ Len(sent) = 1
    /\ sent[1].to = { t \in SocketIds : last.boardId \in socketRooms[t] }
    /\ last.id \notin sent[1].to
    /\ sent[1].event = CASE last.ev = "draw-event" -> "remote-draw"
                          [] last.ev = "clear-board" -> "board-cleared"
                          [] last.ev = "cursor-move" -> "remote-cursor"
                          [] last.ev = "cursor-leave" -> "cursor-hide"
    /\ last.ev = "draw-event" =>
         /\ sent[1].data = last.element
         /\ \E i \in DOMAIN boards[PropertyKey(last.boardId)] :
              boards[PropertyKey(last.boardId)][i] = last.element
    /\ last.ev = "clear-board" => boards[PropertyKey(last.boardId)] = << >>

\* A socket outside the room has cleared a board that a socket is in.
NonMemberEventsWitness ==
  /\ last.ev = "clear-board"
  /\ last.boardId \notin socketRooms[last.id]
  /\ sent[1].to # {}

\* The messages of the given event that wait for the client of socket s.
Waiting(s, event) == { i \in DOMAIN inbox[s] : inbox[s][i].event = event }

\* C27 (presence convergence): a connection that is joined to the board and
\* has no users-update waiting holds, as its users list, the board's user
\* list as the server has it.
PresenceConverges ==
  \A s \in SocketIds :
    (listening[s] /\ sockets[s] = "open" /\ "r1" \in socketRooms[s]
       /\ Waiting(s, "users-update") = {})
      => ("r1" \in DOMAIN users /\ appUsers[s] = users["r1"])

\* C27's case: the client has received the list sent when another connection
\* disconnected and holds the list of those who remain.
PresenceConvergesWitness ==
  /\ last.ev = "disconnect" /\ last.id = 2 /\ ~crashed
  /\ "r1" \in socketRooms[1] /\ sockets[1] = "open"
  /\ delivered.to = 1 /\ delivered.msg.event = "users-update"
  /\ Waiting(1, "users-update") = {}
  /\ appUsers[1] = users["r1"]
  /\ Len(appUsers[1]) >= 1
  /\ \A i \in DOMAIN appUsers[1] : appUsers[1][i].id # 2

\* C29 (snapshot before presence): a join-board answered with an init-state
\* puts, behind the messages already waiting for the joining client, the
\* init-state and directly after it the join's users-update; whatever a later
\* event sends goes behind the waiting messages, and the client handles the
\* message that has waited longest.
SnapshotBeforePresence ==
  [][ /\ (~DeliveryStep /\ ~crashed' /\ last'.ev = "join-board" /\ listening[last'.id]
            /\ Sent("init-state")' # {})
         => inbox'[last'.id] =
              inbox[last'.id]
                \o << [event |-> "init-state", data |-> boards["r1"]],
                      [event |-> "users-update", data |-> users'["r1"]] >>
      /\ \A s \in SocketIds :
           (~DeliveryStep /\ sockets[s] = "open" /\ sockets'[s] = "open")
             => /\ Len(inbox'[s]) >= Len(inbox[s])
                /\ SubSeq(inbox'[s], 1, Len(inbox[s])) = inbox[s]
      /\ DeliveryStep
           => /\ delivered'.msg = Head(inbox[delivered'.to])
              /\ inbox'[delivered'.to] = Tail(inbox[delivered'.to]) ]_vars

\* C29's case: the joining client has handled the init-state of its join and
\* the users-update of the same join is the next message it will handle.
SnapshotBeforePresenceWitness ==
  /\ last.ev = "join-board" /\ last.id = 1 /\ ~crashed
  /\ delivered.to = 1 /\ delivered.msg.event = "init-state"
  /\ inbox[1] # << >>
  /\ Head(inbox[1]) = [event |-> "users-update", data |-> users["r1"]]

\* C26 (element convergence): when no message waits for any App, every App
\* that has joined the board holds the elements, ids and payloads, that the
\* server stores for the board.
ElementsConverge ==
  (\A s \in SocketIds : inbox[s] = << >>)
    => \A s \in SocketIds :
         (sockets[s] = "open" /\ "r1" \in socketRooms[s])
           => ("r1" \in DOMAIN boards /\ Range(elements[s]) = Range(boards["r1"]))

\* C33: a join-board, cursor-move or cursor-leave leaves every stored element
\* list as it was; a join-board may add an empty list for a board that had
\* none, the cursor events add none and leave every user list as it was.
JoinAndCursorKeepElements ==
  [][ (~crashed' /\ ~DeliveryStep
        /\ last'.ev \in {"join-board", "cursor-move", "cursor-leave"}) =>
        /\ \A b \in DOMAIN boards : b \in DOMAIN boards' /\ boards'[b] = boards[b]
        /\ \A b \in DOMAIN boards' \ DOMAIN boards :
             /\ last'.ev = "join-board"
             /\ b = PropertyKey(last'.boardId)
             /\ boards'[b] = << >>
        /\ last'.ev \in {"cursor-move", "cursor-leave"} => users' = users ]_vars

\* C33's cases: a join-board was processed for a board that holds an element,
\* or a cursor event for a board that holds an element and has a user.
JoinAndCursorKeepElementsWitness ==
  /\ ~crashed
  /\ last.ev \in {"join-board", "cursor-move", "cursor-leave"}
  /\ "r1" \in DOMAIN boards /\ boards["r1"] # << >>
  /\ "r1" \in DOMAIN users /\ Len(users["r1"]) = 2

\* The cursors of map cursors other than the one of user u.
OtherCursorsKept(before, after, u) ==
  /\ (DOMAIN after) \ {u} = (DOMAIN before) \ {u}
  /\ \A v \in (DOMAIN before) \ {u} : after[v] = before[v]

\* C32 (cursor is overwrite-only): a client's remoteCursors has one entry per
\* socket id, filed under that id, and none for the client's own id.  Handling
\* a remote-cursor makes the sender's entry the position received, whatever
\* the entry was; handling a cursor-hide takes the sender's entry away and
\* changes nothing when there is none; nothing else changes the map, and the
\* entries of the other sockets stay as they were.
CursorOverwriteOnly ==
  [][ \A s \in SocketIds :
        /\ \A u \in DOMAIN remoteCursors'[s] :
             remoteCursors'[s][u].userId = u /\ u # s
        /\ IF DeliveryStep /\ delivered'.to = s
             THEN LET m == delivered'.msg
                  IN IF m.event = "remote-cursor"
                       THEN /\ m.data.userId \in DOMAIN remoteCursors'[s]
                            /\ remoteCursors'[s][m.data.userId] = m.data
                            /\ OtherCursorsKept(remoteCursors[s], remoteCursors'[s],
                                                m.data.userId)
                       ELSE IF m.event = "cursor-hide"
                         THEN /\ m.data \notin DOMAIN remoteCursors'[s]
                              /\ OtherCursorsKept(remoteCursors[s], remoteCursors'[s], m.data)
                              /\ m.data \notin DOMAIN remoteCursors[s]
                                   => remoteCursors'[s] = remoteCursors[s]
                         ELSE remoteCursors'[s] = remoteCursors[s]
             ELSE remoteCursors'[s] = remoteCursors[s] ]_vars

\* C32's case: the client holds for socket 2 the position of the remote-cursor
\* it handled last, while socket 2 has moved on to another position whose
\* remote-cursor still waits.
CursorOverwriteOnlyWitness ==
  /\ delivered.to = 1 /\ delivered.msg.event = "remote-cursor"
  /\ delivered.msg.data = [userId |-> 2, x |-> 1, y |-> 2]
  /\ 2 \in DOMAIN remoteCursors[1]
  /\ remoteCursors[1][2] = delivered.msg.data
  /\ last.ev = "cursor-move" /\ last.id = 2 /\ last.x = 0
  /\ inbox[1] = << [event |-> "remote-cursor", data |-> [userId |-> 2, x |-> 0, y |-> 0]] >>

\* C31: fed the same elements from the same list, the reducer of the client's
\* remote-draw listener and the upsert of the server's draw-event handler
\* hold the same list, ids, payloads and order, after every element; and the
\* one throws on an element exactly when the other does.
SameUpsert ==
  /\ elements[1] = boards["r1"]
  /\ \A element \in UpsertInputs :
       RemoteDrawThrows(elements[1], element) <=> FindIndexThrows(boards["r1"], element)

\* C31's case: an element has replaced, in both lists, an element of its id
\* and another payload that is not the last of the list.
SameUpsertWitness ==
  /\ last.ev = "draw-event"
  /\ replaced # NoElement /\ replaced # last.element
  /\ Len(boards["r1"]) >= 2
  /\ boards["r1"][1] = last.element
  /\ elements[1] = boards["r1"]

====
